---- MODULE Spec2Model ----
(***************************************************************************)
(* A model of controllers/postController.js: the request handlers of the   *)
(* journal backend over the Article, Journal, Reviewer and Auth            *)
(* collections, the staging directory of the zip archives and its timers.  *)
(*                                                                         *)
(* Every awaited Entity Store call is a point where the call may reject;   *)
(* a rejection inside a try block runs the handler's catch, one outside    *)
(* leaves the handler as an unhandled rejection.                           *)
(***************************************************************************)
EXTENDS Integers, Sequences, FiniteSets, TLC

VARIABLES
    articles,       \* the Article collection, in insertion order
    journals,       \* the Journal collection: a set of [id, editorId]
    auths,          \* the Auth collection: a set of Auth records
    reviewers,      \* the Reviewer collection: a set of [id, email]
    nextId,         \* the next fresh _id of each collection
    provisionedFor, \* history: <<id, journalId>> of each stored Auth that addEditor made
    req,            \* the addEditor/removeEditor/deleteJournal requests in flight
    res,            \* the response sent in the last step, if it sent one
    now,            \* the clock, in milliseconds
    zipDir,         \* the file names present in public/journals/zip
    zip,            \* the createZip requests: their stream and their timer
    crashed         \* an exception reached the top of the event loop

vars == <<articles, journals, auths, reviewers, nextId, provisionedFor, req,
          res, now, zipDir, zip, crashed>>

(***************************************************************************)
(* Bounds of the model and the sets the inputs are drawn from.             *)
(***************************************************************************)
MaxArticles == 2
MaxReviewed == 1
MaxJournals == 1
MaxAuths == 2
MaxEditors == 1
MaxReviewers == 2

\* The requests that may be in flight together.
Slots == {1, 2}
ZipSlots == {1, 2}

UserIds == {"u1", "u2"}
Emails == {"a@x.com", "b@x.com"}
Phones == {"0171", "0172"}
Reviews == {"pending", "accepted"}

\* The files of public/journals/upload, and the file lists a request may send.
Uploads == {"a.txt", "b.txt"}
FileLists == {{"a.txt", "b.txt"}, {"a.txt"}, {"a.txt", "missing.txt"}, {}}

\* setTimeout(..., 60000), in milliseconds; the clock moves in steps of half of it.
Delay == 60000
ClockStep == Delay \div 2
MaxTicks == 5

Authors == [email : Emails]
AuthorLists == {<<>>} \cup {<<a>> : a \in Authors}
                 \cup {<<a, b>> : a \in Authors, b \in Authors}
ReviewerEntries == [email : Emails, review : Reviews]
ReviewerLists == {<<>>} \cup {<<a>> : a \in ReviewerEntries}
                   \cup {<<a, b>> : a \in ReviewerEntries, b \in ReviewerEntries}
Users == [id : UserIds, email : Emails]

(***************************************************************************)
(* Responses: res.status(s).json({success, message, data}).  A handler     *)
(* left by an exception outside any try sends nothing: responses = 0 and   *)
(* escaped = TRUE.                                                         *)
(***************************************************************************)
Response(op, status, success, message, args, data) ==
    [op |-> op, status |-> status, success |-> success, message |-> message,
     args |-> args, data |-> data, responses |-> 1, escaped |-> FALSE]

Escaped(op, args) ==
    [op |-> op, status |-> 0, success |-> FALSE, message |-> "",
     args |-> args, data |-> <<>>, responses |-> 0, escaped |-> TRUE]

NoResponse == [op |-> "none", status |-> 0, success |-> FALSE, message |-> "",
               args |-> <<>>, data |-> <<>>, responses |-> 0, escaped |-> FALSE]

\* An awaited store call resolves or rejects.
StoreOutcomes == {"ok", "error"}

(***************************************************************************)
(* Articles.                                                               *)
(***************************************************************************)
NewArticle(id, userId, authors) ==
    [id |-> id, userId |-> userId, authors |-> authors, reviewers |-> <<>>]

\* Article.find({ userId: req.user._id })
FindByUserId(userId) == SelectSeq(articles, LAMBDA a : a.userId = userId)

\* Article.find({ 'authors.email': req.user.email })
FindByAuthorEmail(email) ==
    SelectSeq(articles,
              LAMBDA a : \E i \in DOMAIN a.authors : a.authors[i].email = email)

\* Article.find({ 'reviewers.email': ... }).select('title createdAt file reviewers')
FindByReviewerEmail(email) ==
    LET hit == SelectSeq(articles,
                  LAMBDA a : \E i \in DOMAIN a.reviewers : a.reviewers[i].email = email)
    IN  [i \in DOMAIN hit |-> [id |-> hit[i].id, reviewers |-> hit[i].reviewers]]

\* articles.some(item1 => item1.id === item2.id)
Some(list, id) == \E i \in DOMAIN list : list[i].id = id

MergeNoDedup(owned, others) == owned \o others

\* articles.concat(otherArticles.filter(item2 => !articles.some(...)))
MergeArticles(owned, others) ==
    owned \o SelectSeq(others, LAMBDA item2 : ~Some(owned, item2.id))

KeepAllReviewers(list, email) == list

\* article.reviewers.filter(reviewer => reviewer.email === req.user.email)
FilterReviewers(list, email) == SelectSeq(list, LAMBDA r : r.email = email)

\* Array.prototype.findIndex: the first index (from 0) that matches, or -1.
RECURSIVE FindIndexFrom(_, _, _)
FindIndexFrom(list, email, i) ==
    IF i >= Len(list) THEN -1
    ELSE IF list[i + 1].email = email THEN i
    ELSE FindIndexFrom(list, email, i + 1)

FindIndex(list, email) == FindIndexFrom(list, email, 0)

AssignIndexWrapping(list, i, v) ==
    IF i >= 0 /\ i < Len(list) THEN [list EXCEPT ![i + 1] = v]
    ELSE IF Len(list) > 0 THEN [list EXCEPT ![Len(list)] = v]
    ELSE list

\* article.reviewers[reviewerIndex] = v.  An index within the array replaces
\* that element; -1 names a property of the array object, not an element,
\* so the elements stay as they are.
AssignIndex(list, i, v) ==
    IF i >= 0 /\ i < Len(list) THEN [list EXCEPT ![i + 1] = v]
    ELSE list

\* findByIdAndUpdate(id, body): the fields the body names are replaced.
ApplyPatch(a, patch) ==
    [f \in DOMAIN a |-> IF f \in DOMAIN patch THEN patch[f] ELSE a[f]]

ArticleIds == {articles[i].id : i \in DOMAIN articles}

UnchangedJournalSide ==
    UNCHANGED <<journals, auths, reviewers, nextId, provisionedFor, req>>
UnchangedZipSide == UNCHANGED <<now, zipDir, zip, crashed>>

\* parses: whether JSON.parse accepts req.body.keywords and req.body.authors;
\* it throws on a field that is no JSON text, inside the try.
addArticle(userId, authors, parses, outcome) ==
    /\ IF ~parses
       THEN /\ res' = Response("addArticle", 404, FALSE, "Article submission failed",
                               <<userId>>, <<>>)
            /\ UNCHANGED articles
       ELSE IF outcome = "error"
       THEN /\ res' = Response("addArticle", 404, FALSE, "Article submission failed",
                               <<userId>>, <<>>)
            /\ UNCHANGED articles
       ELSE LET article == NewArticle(Len(articles) + 1, userId, authors)
            IN  /\ articles' = Append(articles, article)
                /\ res' = Response("addArticle", 201, TRUE,
                                   "Article submitted successfully",
                                   <<userId>>, <<article>>)
    /\ UnchangedJournalSide
    /\ UnchangedZipSide

getArticle(user, outcome) ==
    /\ IF outcome = "error"
       THEN res' = Response("getArticle", 404, FALSE,
                            "Journal Articles data retrieval failed", <<user>>, <<>>)
       ELSE LET owned == FindByUserId(user.id)
                otherArticles == FindByAuthorEmail(user.email)
            IN  IF Len(owned) = 0 /\ Len(otherArticles) = 0
                THEN res' = Response("getArticle", 404, FALSE,
                                     "You didn't submit any journal article",
                                     <<user>>, <<>>)
                ELSE res' = Response("getArticle", 200, TRUE,
                                     "Journal Articles data retrieved successfully",
                                     <<user>>, MergeArticles(owned, otherArticles))
    /\ UNCHANGED articles
    /\ UnchangedJournalSide
    /\ UnchangedZipSide

updateArticle(id, patch, outcome) ==
    /\ IF outcome = "error"
       THEN /\ res' = Response("updateArticle", 404, FALSE,
                               "Journal article update failed", <<id>>, <<>>)
            /\ UNCHANGED articles
       ELSE IF id \notin ArticleIds
       THEN /\ res' = Response("updateArticle", 404, FALSE,
                               "Journal article not found", <<id>>, <<>>)
            /\ UNCHANGED articles
       ELSE /\ articles' = [i \in DOMAIN articles |->
                             IF articles[i].id = id
                             THEN ApplyPatch(articles[i], patch) ELSE articles[i]]
            /\ res' = Response("updateArticle", 200, TRUE,
                               "Journal article updated successfully", <<id>>,
                               <<ApplyPatch(articles[id], patch)>>)
    /\ UnchangedJournalSide
    /\ UnchangedZipSide

getReviewArticles(email, outcome) ==
    /\ IF outcome = "error"
       THEN res' = Response("getReviewArticles", 404, FALSE,
                            "Journal Articles data retrieval failed", <<email>>, <<>>)
       ELSE LET found == FindByReviewerEmail(email)
            IN  IF Len(found) = 0
                THEN res' = Response("getReviewArticles", 404, FALSE,
                                     "No review articles found", <<email>>, <<>>)
                ELSE res' = Response("getReviewArticles", 200, TRUE,
                            "Journal Articles data retrieved successfully", <<email>>,
                            [i \in DOMAIN found |->
                                [id |-> found[i].id,
                                 reviewers |-> FilterReviewers(found[i].reviewers, email)]])
    /\ UNCHANGED articles
    /\ UnchangedJournalSide
    /\ UnchangedZipSide

\* findOutcome, saveOutcome: of Article.findById and of article.save()
updateReview(id, email, entry, findOutcome, saveOutcome) ==
    /\ IF findOutcome = "error"
       THEN /\ res' = Response("updateReview", 404, FALSE,
                               "Journal article update failed", <<id, email, entry>>, <<>>)
            /\ UNCHANGED articles
       ELSE IF id \notin ArticleIds
       THEN /\ res' = Response("updateReview", 404, FALSE,
                               "Journal article not found", <<id, email, entry>>, <<>>)
            /\ UNCHANGED articles
       ELSE LET article == articles[id]
                reviewerIndex == FindIndex(article.reviewers, email)
                updated == AssignIndex(article.reviewers, reviewerIndex, entry)
            IN  IF saveOutcome = "error"
                THEN /\ res' = Response("updateReview", 404, FALSE,
                                        "Journal article update failed",
                                        <<id, email, entry>>, <<>>)
                     /\ UNCHANGED articles
                ELSE /\ articles' = [articles EXCEPT ![id].reviewers = updated]
                     /\ res' = Response("updateReview", 200, TRUE,
                                        "Journal article updated successfully",
                                        <<id, email, entry>>, <<>>)
    /\ UnchangedJournalSide
    /\ UnchangedZipSide

(***************************************************************************)
(* Initial state: empty collections, no request in flight.                 *)
(***************************************************************************)
IdleReq == [op |-> "none", pc |-> "idle", journalId |-> 0, email |-> "",
            phoneNumber |-> "", editorId |-> 0, conflict |-> FALSE]
IdleZip == [stream |-> "none", timer |-> "none", filename |-> -1, deadline |-> -1]

Init ==
    /\ articles = <<>>
    /\ journals = {}
    /\ auths = {}
    /\ reviewers = {}
    /\ nextId = [journal |-> 1, auth |-> 1, reviewer |-> 1]
    /\ provisionedFor = {}
    /\ req = [r \in Slots |-> IdleReq]
    /\ res = NoResponse
    /\ now = 0
    /\ zipDir = {}
    /\ zip = [r \in ZipSlots |-> IdleZip]
    /\ crashed = FALSE

(***************************************************************************)
(* The article list of a user: submissions, edits of owner and authors,    *)
(* and the list itself.                                                    *)
(***************************************************************************)
NextList ==
    \/ \E u \in UserIds, a \in AuthorLists, p \in BOOLEAN, o \in StoreOutcomes :
          Len(articles) < MaxArticles /\ addArticle(u, a, p, o)
    \/ \E id \in 1..MaxArticles, u \in UserIds, a \in AuthorLists, o \in StoreOutcomes :
          updateArticle(id, [userId |-> u, authors |-> a], o)
    \/ \E u \in Users, o \in StoreOutcomes : getArticle(u, o)

SpecList == Init /\ [][NextList]_vars

(***************************************************************************)
(* The review workflow: reviewers assigned by an update of the article,    *)
(* a reviewer's own entry replaced, the articles a reviewer must review.   *)
(***************************************************************************)
NextReview ==
    \/ \E p \in BOOLEAN, o \in StoreOutcomes :
          Len(articles) < MaxReviewed /\ addArticle("u1", <<>>, p, o)
    \/ \E id \in 1..MaxReviewed, l \in ReviewerLists, o \in StoreOutcomes :
          updateArticle(id, [reviewers |-> l], o)
    \/ \E id \in 1..MaxReviewed, e \in Emails, entry \in ReviewerEntries,
          fo \in StoreOutcomes, so \in StoreOutcomes :
          updateReview(id, e, entry, fo, so)
    \/ \E e \in Emails, o \in StoreOutcomes : getReviewArticles(e, o)

SpecReview == Init /\ [][NextReview]_vars

(***************************************************************************)
(* Journals and their editors.  addEditor, removeEditor and deleteJournal  *)
(* await several store calls in turn; each awaited call is one step of the *)
(* request, and the steps of the requests in flight interleave.  A request *)
(* that has sent its response leaves its slot; the response is in res.     *)
(***************************************************************************)
NewAuth(id, email, phoneNumber) ==
    [id |-> id, email |-> email, phoneNumber |-> phoneNumber,
     isEditor |-> TRUE, isReviewer |-> FALSE]

\* Auth.findOne({ email: req.body.email })
AuthByEmail(email) == {a \in auths : a.email = email}

\* Auth.findOne({ phoneNumber: req.body.phoneNumber })
AuthByPhone(phoneNumber) == {a \in auths : a.phoneNumber = phoneNumber}

\* The unique index of Auth.phoneNumber: a save of a second record with the
\* number is rejected by the store.
PhoneIndexRejects(phoneNumber) == \E a \in auths : a.phoneNumber = phoneNumber

\* Journal.findById(id)
JournalById(id) == {j \in journals : j.id = id}

\* Auth.findByIdAndDelete(id); an unset id matches no record.
AuthsWithout(id) == {a \in auths : a.id # id}

\* The history kept of the Auth records that are left.
ProvisionedWithout(id) == {p \in provisionedFor : p[1] # id}

KeepEditor(journalData) == 0

\* if (journalData.editorId) await Auth.findByIdAndDelete(journalData.editorId)
CascadeOf(journalData) == journalData.editorId

\* Journal.findByIdAndUpdate(id, { editorId: e }); no journal of the id: no change.
JournalsWithEditor(id, editorId) ==
    {IF j.id = id THEN [j EXCEPT !.editorId = editorId] ELSE j : j \in journals}

\* The request of slot r goes on to its next awaited call; the step sends nothing.
Await(r, call, pc) ==
    /\ req' = [req EXCEPT ![r] = [call EXCEPT !.pc = pc]]
    /\ res' = NoResponse

\* The request of slot r sends its response and ends.
Respond(r, call, status, message) ==
    /\ req' = [req EXCEPT ![r] = IdleReq]
    /\ res' = Response(call.op, status, status \in {200, 201}, message, call, <<>>)

Begin(op, journalId, email, phoneNumber) ==
    [op |-> op, pc |-> "start", journalId |-> journalId, email |-> email,
     phoneNumber |-> phoneNumber, editorId |-> 0, conflict |-> FALSE]

\* A new request takes the first free slot.
Free(r) == req[r] = IdleReq /\ \A s \in Slots : s < r => req[s] # IdleReq

\* The addEditor requests that have yet to save their Auth record.
Unsaved == Cardinality({r \in Slots : req[r].pc \in {"findPhone", "save"}})

UnchangedArticleSide == UNCHANGED <<articles, reviewers>>

addJournal(r, outcome) ==
    /\ Free(r)
    /\ nextId.journal <= MaxJournals
    /\ IF outcome = "error"
       THEN /\ Respond(r, Begin("addJournal", 0, "", ""), 404, "Journal addition failed")
            /\ UNCHANGED <<journals, nextId>>
       ELSE /\ journals' = journals \cup {[id |-> nextId.journal, editorId |-> 0]}
            /\ nextId' = [nextId EXCEPT !.journal = @ + 1]
            /\ Respond(r, Begin("addJournal", nextId.journal, "", ""), 201,
                       "Journal added successfully")
    /\ UNCHANGED <<auths, provisionedFor>>
    /\ UnchangedArticleSide
    /\ UnchangedZipSide

\* addEditor up to the answer of Auth.findOne({ email })
addEditor(r, journalId, email, phoneNumber, outcome) ==
    /\ Free(r)
    /\ LET call == [Begin("addEditor", journalId, email, phoneNumber) EXCEPT
                       !.conflict = \E a \in auths :
                                       a.email = email \/ a.phoneNumber = phoneNumber]
       IN  IF outcome = "error"
           THEN Respond(r, call, 404, "Editor addition failed")
           ELSE IF AuthByEmail(email) # {}
           THEN Respond(r, call, 400, "Editor already exists")
           ELSE Await(r, call, "findPhone")
    /\ UNCHANGED <<journals, auths, nextId, provisionedFor>>
    /\ UnchangedArticleSide
    /\ UnchangedZipSide

\* ... up to the answer of Auth.findOne({ phoneNumber })
addEditor_findPhone(r, outcome) ==
    /\ req[r].op = "addEditor" /\ req[r].pc = "findPhone"
    /\ IF outcome = "error"
       THEN Respond(r, req[r], 404, "Editor addition failed")
       ELSE IF AuthByPhone(req[r].phoneNumber) # {}
       THEN Respond(r, req[r], 400, "Phone number already exists")
       ELSE Await(r, req[r], "save")
    /\ UNCHANGED <<journals, auths, nextId, provisionedFor>>
    /\ UnchangedArticleSide
    /\ UnchangedZipSide

\* ... up to the end of editor.save()
addEditor_save(r, outcome) ==
    /\ req[r].op = "addEditor" /\ req[r].pc = "save"
    /\ IF outcome = "error" \/ PhoneIndexRejects(req[r].phoneNumber)
       THEN /\ Respond(r, req[r], 404, "Editor addition failed")
            /\ UNCHANGED <<auths, nextId, provisionedFor>>
       ELSE /\ auths' = auths \cup {NewAuth(nextId.auth, req[r].email, req[r].phoneNumber)}
            /\ nextId' = [nextId EXCEPT !.auth = @ + 1]
            /\ provisionedFor' = provisionedFor \cup {<<nextId.auth, req[r].journalId>>}
            /\ Await(r, [req[r] EXCEPT !.editorId = nextId.auth], "link")
    /\ UNCHANGED journals
    /\ UnchangedArticleSide
    /\ UnchangedZipSide

\* ... up to the end of Journal.findByIdAndUpdate(journalId, { editorId })
addEditor_link(r, outcome) ==
    /\ req[r].op = "addEditor" /\ req[r].pc = "link"
    /\ IF outcome = "error"
       THEN /\ Respond(r, req[r], 404, "Editor addition failed")
            /\ UNCHANGED journals
       ELSE /\ journals' = JournalsWithEditor(req[r].journalId, req[r].editorId)
            /\ Respond(r, req[r], 201, "Editor added successfully")
    /\ UNCHANGED <<auths, nextId, provisionedFor>>
    /\ UnchangedArticleSide
    /\ UnchangedZipSide

\* deleteJournal up to the answer of Journal.findByIdAndDelete
deleteJournal(r, journalId, outcome) ==
    /\ Free(r)
    /\ LET call == Begin("deleteJournal", journalId, "", "")
           found == JournalById(journalId)
       IN  IF outcome = "error"
           THEN /\ Respond(r, call, 404, "Journal deletion failed")
                /\ UNCHANGED journals
           ELSE IF found = {}
           THEN /\ Respond(r, call, 404, "Journal not found")
                /\ UNCHANGED journals
           ELSE LET journalData == CHOOSE j \in found : TRUE
                IN  /\ journals' = journals \ found
                    /\ IF CascadeOf(journalData) # 0
                       THEN /\ Await(r, [call EXCEPT !.editorId = CascadeOf(journalData)],
                                     "deleteAuth")
                       ELSE Respond(r, call, 200, "Journal deleted successfully")
    /\ UNCHANGED <<auths, nextId, provisionedFor>>
    /\ UnchangedArticleSide
    /\ UnchangedZipSide

\* ... up to the end of Auth.findByIdAndDelete(journalData.editorId)
deleteJournal_deleteAuth(r, outcome) ==
    /\ req[r].op = "deleteJournal" /\ req[r].pc = "deleteAuth"
    /\ IF outcome = "error"
       THEN /\ Respond(r, req[r], 404, "Journal deletion failed")
            /\ UNCHANGED <<auths, provisionedFor>>
       ELSE /\ auths' = AuthsWithout(req[r].editorId)
            /\ provisionedFor' = ProvisionedWithout(req[r].editorId)
            /\ Respond(r, req[r], 200, "Journal deleted successfully")
    /\ UNCHANGED <<journals, nextId>>
    /\ UnchangedArticleSide
    /\ UnchangedZipSide

\* removeEditor up to the answer of Journal.findById
removeEditor(r, journalId, outcome) ==
    /\ Free(r)
    /\ LET call == Begin("removeEditor", journalId, "", "")
           found == JournalById(journalId)
       IN  IF outcome = "error"
           THEN Respond(r, call, 404, "Editor removal failed")
           ELSE IF found = {}
           THEN Respond(r, call, 404, "Journal not found")
           ELSE /\ Await(r, [call EXCEPT !.editorId = (CHOOSE j \in found : TRUE).editorId],
                         "deleteAuth")
    /\ UNCHANGED <<journals, auths, nextId, provisionedFor>>
    /\ UnchangedArticleSide
    /\ UnchangedZipSide

\* ... up to the end of Auth.findByIdAndDelete(journal.editorId)
removeEditor_deleteAuth(r, outcome) ==
    /\ req[r].op = "removeEditor" /\ req[r].pc = "deleteAuth"
    /\ IF outcome = "error"
       THEN /\ Respond(r, req[r], 404, "Editor removal failed")
            /\ UNCHANGED <<auths, provisionedFor>>
       ELSE /\ auths' = AuthsWithout(req[r].editorId)
            /\ provisionedFor' = ProvisionedWithout(req[r].editorId)
            /\ Await(r, req[r], "unlink")
    /\ UNCHANGED <<journals, nextId>>
    /\ UnchangedArticleSide
    /\ UnchangedZipSide

\* ... up to the end of Journal.findByIdAndUpdate(journalId, { editorId: null })
removeEditor_unlink(r, outcome) ==
    /\ req[r].op = "removeEditor" /\ req[r].pc = "unlink"
    /\ IF outcome = "error"
       THEN /\ Respond(r, req[r], 404, "Editor removal failed")
            /\ UNCHANGED journals
       ELSE /\ journals' = JournalsWithEditor(req[r].journalId, 0)
            /\ Respond(r, req[r], 200, "Editor removed successfully")
    /\ UNCHANGED <<auths, nextId, provisionedFor>>
    /\ UnchangedArticleSide
    /\ UnchangedZipSide

\* The journal ids a request may name: those given out so far, and one that
\* is the id of no journal.
UnknownId == 0
JournalIds == (1..(nextId.journal - 1)) \cup {UnknownId}

(***************************************************************************)
(* Editors assigned to journals by interleaved addEditor requests.         *)
(***************************************************************************)
NextAssign ==
    \E r \in Slots, o \in StoreOutcomes :
        \/ addJournal(r, o)
        \/ \E j \in JournalIds, e \in Emails, p \in Phones :
              nextId.auth + Unsaved <= MaxAuths /\ addEditor(r, j, e, p, o)
        \/ addEditor_findPhone(r, o)
        \/ addEditor_save(r, o)
        \/ addEditor_link(r, o)

SpecAssign == Init /\ [][NextAssign]_vars

(***************************************************************************)
(* The whole life of journals and editors, with the store calls ending in  *)
(* one of the given outcomes.                                              *)
(***************************************************************************)
\* The people made editors here: each with an email and a phone number of their own.
Editors == {<<"a@x.com", "0171">>, <<"b@x.com", "0172">>}

JournalSteps(outcomes) ==
    \E r \in Slots, o \in outcomes :
        \/ addJournal(r, o)
        \/ \E j \in JournalIds, e \in Editors :
              nextId.auth + Unsaved <= MaxEditors /\ addEditor(r, j, e[1], e[2], o)
        \/ addEditor_findPhone(r, o)
        \/ addEditor_save(r, o)
        \/ addEditor_link(r, o)
        \/ \E j \in JournalIds : deleteJournal(r, j, o)
        \/ deleteJournal_deleteAuth(r, o)
        \/ \E j \in JournalIds : removeEditor(r, j, o)
        \/ removeEditor_deleteAuth(r, o)
        \/ removeEditor_unlink(r, o)

NextJournal == JournalSteps(StoreOutcomes)

SpecJournal == Init /\ [][NextJournal]_vars

\* The same with a store none of whose calls rejects.
NextReliable == JournalSteps({"ok"})

SpecReliable == Init /\ [][NextReliable]_vars

(***************************************************************************)
(* The reviewer roster.  The Auth records of the people are made by the    *)
(* sign-up of the site, before any of these handlers runs.                 *)
(***************************************************************************)
Accounts ==
    {[id |-> 101, email |-> "a@x.com", phoneNumber |-> "0171",
      isEditor |-> FALSE, isReviewer |-> FALSE],
     [id |-> 102, email |-> "b@x.com", phoneNumber |-> "0172",
      isEditor |-> FALSE, isReviewer |-> FALSE]}

BulkBatches == {<<e>> : e \in Emails} \cup {<<e, f>> : e \in Emails, f \in Emails}

NoReviewerByEmail(email) == {}

\* Reviewer.findOne({ email: req.body.email })
ReviewerByEmail(email) == {v \in reviewers : v.email = email}

\* The unique index of Reviewer.email: the store rejects a second record of an email.
EmailIndexRejects(email) == \E v \in reviewers : v.email = email

\* Auth.findOneAndUpdate({ email }, { $set: { isReviewer: flag } }): the first
\* record of the email is updated, none when there is none.
AuthsFlagged(email, flag) ==
    LET hit == {a \in auths : a.email = email}
    IN  IF hit = {} THEN auths
        ELSE LET first == CHOOSE a \in hit : \A b \in hit : a.id <= b.id
             IN  (auths \ {first}) \cup {[first EXCEPT !.isReviewer = flag]}

\* Reviewer.insertMany(docs): the documents are inserted in their order up to
\* the first one the store rejects.
RECURSIVE InsertedPrefix(_, _)
InsertedPrefix(batch, present) ==
    IF batch = <<>> \/ Head(batch) \in present THEN <<>>
    ELSE <<Head(batch)>> \o InsertedPrefix(Tail(batch), present \cup {Head(batch)})

UnchangedOutsideRoster ==
    UNCHANGED <<articles, journals, provisionedFor, req, now, zipDir, zip, crashed>>

\* findOutcome: of Reviewer.findOne, awaited before the try; saveOutcome: of
\* reviewer.save(); updateOutcome: of Auth.findOneAndUpdate.
addReviewer(email, findOutcome, saveOutcome, updateOutcome) ==
    /\ nextId.reviewer <= MaxReviewers
    /\ IF findOutcome = "error"
       THEN /\ res' = Escaped("addReviewer", <<email>>)
            /\ UNCHANGED <<reviewers, auths, nextId>>
       ELSE IF ReviewerByEmail(email) # {}
       THEN /\ res' = Response("addReviewer", 400, FALSE, "Reviewer already exists",
                               <<email>>, <<>>)
            /\ UNCHANGED <<reviewers, auths, nextId>>
       ELSE IF saveOutcome = "error" \/ EmailIndexRejects(email)
       THEN /\ res' = Response("addReviewer", 404, FALSE, "Reviewer addition failed",
                               <<email>>, <<>>)
            /\ UNCHANGED <<reviewers, auths, nextId>>
       ELSE /\ reviewers' = reviewers \cup {[id |-> nextId.reviewer, email |-> email]}
            /\ nextId' = [nextId EXCEPT !.reviewer = @ + 1]
            /\ IF updateOutcome = "error"
               THEN /\ res' = Response("addReviewer", 404, FALSE,
                                       "Reviewer addition failed", <<email>>, <<>>)
                    /\ UNCHANGED auths
               ELSE /\ auths' = AuthsFlagged(email, TRUE)
                    /\ res' = Response("addReviewer", 201, TRUE,
                                       "Reviewer added successfully", <<email>>,
                                       <<[id |-> nextId.reviewer, email |-> email]>>)
    /\ UnchangedOutsideRoster

addBulkReviewer(batch, outcome) ==
    /\ nextId.reviewer + Len(batch) - 1 <= MaxReviewers
    /\ IF outcome = "error"
       THEN /\ res' = Response("addBulkReviewer", 404, FALSE, "Reviewers addition failed",
                               <<batch>>, <<>>)
            /\ UNCHANGED <<reviewers, nextId>>
       ELSE LET inserted == InsertedPrefix(batch, {v.email : v \in reviewers})
                docs == [i \in DOMAIN inserted |->
                            [id |-> nextId.reviewer + i - 1, email |-> inserted[i]]]
            IN  /\ reviewers' = reviewers \cup {docs[i] : i \in DOMAIN docs}
                /\ nextId' = [nextId EXCEPT !.reviewer = @ + Len(inserted)]
                /\ IF Len(inserted) < Len(batch)
                   THEN res' = Response("addBulkReviewer", 404, FALSE,
                                        "Reviewers addition failed", <<batch>>, <<>>)
                   ELSE res' = Response("addBulkReviewer", 201, TRUE,
                                        "Reviewers added successfully", <<batch>>, docs)
    /\ UNCHANGED auths
    /\ UnchangedOutsideRoster

\* deleteOutcome: of Reviewer.findByIdAndDelete; updateOutcome: of Auth.findOneAndUpdate
deleteReviewer(reviewerId, deleteOutcome, updateOutcome) ==
    /\ LET found == {v \in reviewers : v.id = reviewerId}
       IN  IF deleteOutcome = "error"
           THEN /\ res' = Response("deleteReviewer", 404, FALSE,
                                   "Reviewer deletion failed", <<reviewerId>>, <<>>)
                /\ UNCHANGED <<reviewers, auths>>
           ELSE IF found = {}
           THEN /\ res' = Response("deleteReviewer", 404, FALSE, "Reviewer not found",
                                   <<reviewerId>>, <<>>)
                /\ UNCHANGED <<reviewers, auths>>
           ELSE LET reviewerData == CHOOSE v \in found : TRUE
                IN  /\ reviewers' = reviewers \ found
                    /\ IF updateOutcome = "error"
                       THEN /\ res' = Response("deleteReviewer", 404, FALSE,
                                               "Reviewer deletion failed",
                                               <<reviewerId>>, <<>>)
                            /\ UNCHANGED auths
                       ELSE /\ auths' = AuthsFlagged(reviewerData.email, FALSE)
                            /\ res' = Response("deleteReviewer", 200, TRUE,
                                               "Reviewer deleted successfully",
                                               <<reviewerId>>, <<>>)
    /\ UNCHANGED nextId
    /\ UnchangedOutsideRoster

InitRoster ==
    /\ articles = <<>>
    /\ journals = {}
    /\ auths \in SUBSET Accounts
    /\ reviewers = {}
    /\ nextId = [journal |-> 1, auth |-> 1, reviewer |-> 1]
    /\ provisionedFor = {}
    /\ req = [r \in Slots |-> IdleReq]
    /\ res = NoResponse
    /\ now = 0
    /\ zipDir = {}
    /\ zip = [r \in ZipSlots |-> IdleZip]
    /\ crashed = FALSE

RosterSteps(outcomes) ==
    \/ \E e \in Emails, fo \in outcomes, so \in outcomes, uo \in outcomes :
          addReviewer(e, fo, so, uo)
    \/ \E b \in BulkBatches, o \in outcomes : addBulkReviewer(b, o)
    \/ \E id \in 1..MaxReviewers, do \in outcomes, uo \in outcomes :
          deleteReviewer(id, do, uo)

NextRoster == RosterSteps(StoreOutcomes)

SpecRoster == InitRoster /\ [][NextRoster]_vars

\* The same with a store none of whose calls rejects.
NextRosterReliable == RosterSteps({"ok"})

SpecRosterReliable == InitRoster /\ [][NextRosterReliable]_vars

(***************************************************************************)
(* createZip.  The handler reads the files, starts the archive stream and  *)
(* the timer and returns; the stream opens its file, writes and finishes   *)
(* (the response is sent from its 'finish' listener), and the timer fires  *)
(* when its delay has passed, each in a later turn of the event loop.      *)
(* An exception thrown in one of those turns is caught by nothing: the     *)
(* process ends.                                                           *)
(***************************************************************************)
FreeZip(r) ==
    /\ zip[r].stream \in {"none", "finished"}
    /\ zip[r].timer = "none"
    /\ \A s \in ZipSlots :
          s < r => ~(zip[s].stream \in {"none", "finished"} /\ zip[s].timer = "none")

UnchangedOutsideZip ==
    UNCHANGED <<articles, journals, auths, reviewers, nextId, provisionedFor, req>>

\* files: req.body.files.  readFileSync throws, inside the try, on a name that
\* is no file of the upload directory.  The archive is named by the time; the
\* timer is set as the handler goes on from starting the stream, not at 'finish'.
createZip(r, files) ==
    /\ ~crashed
    /\ FreeZip(r)
    /\ IF ~(files \subseteq Uploads)
       THEN /\ res' = Response("createZip", 404, FALSE, "Zip file creation failed",
                               <<files>>, <<>>)
            /\ UNCHANGED zip
       ELSE /\ zip' = [zip EXCEPT ![r] =
                          [stream |-> "opening", timer |-> "pending",
                           filename |-> now, deadline |-> now + Delay]]
            /\ res' = NoResponse
    /\ UNCHANGED <<now, zipDir, crashed>>
    /\ UnchangedOutsideZip

\* fs.createWriteStream opens (creates) the file
openStream(r) ==
    /\ ~crashed
    /\ zip[r].stream = "opening"
    /\ zipDir' = zipDir \cup {zip[r].filename}
    /\ zip' = [zip EXCEPT ![r].stream = "writing"]
    /\ res' = NoResponse
    /\ UNCHANGED <<now, crashed>>
    /\ UnchangedOutsideZip

\* .on('finish', ...): the archive is written; the response names it
finishStream(r) ==
    /\ ~crashed
    /\ zip[r].stream = "writing"
    /\ zip' = [zip EXCEPT ![r].stream = "finished"]
    /\ res' = Response("createZip", 200, TRUE, "Zip file created successfully",
                       <<zip[r].filename>>, <<>>)
    /\ UNCHANGED <<now, zipDir, crashed>>
    /\ UnchangedOutsideZip

\* The stream emits 'error'; it has no listener for it.
streamError(r) ==
    /\ ~crashed
    /\ zip[r].stream \in {"opening", "writing"}
    /\ crashed' = TRUE
    /\ res' = NoResponse
    /\ UNCHANGED <<now, zipDir, zip>>
    /\ UnchangedOutsideZip

\* The timer's callback: fs.unlinkSync removes the file, written to the end or
\* not, and throws when the file is not there.
fireTimer(r) ==
    /\ ~crashed
    /\ zip[r].timer = "pending"
    /\ now >= zip[r].deadline
    /\ zip' = [zip EXCEPT ![r].timer = "none"]
    /\ IF zip[r].filename \in zipDir
       THEN /\ zipDir' = zipDir \ {zip[r].filename}
            /\ UNCHANGED crashed
       ELSE /\ crashed' = TRUE
            /\ UNCHANGED zipDir
    /\ res' = NoResponse
    /\ UNCHANGED now
    /\ UnchangedOutsideZip

\* Time passes, up to the next timer that is due.
tick ==
    /\ ~crashed
    /\ now + ClockStep <= MaxTicks * ClockStep
    /\ \A r \in ZipSlots : zip[r].timer = "pending" => now + ClockStep <= zip[r].deadline
    /\ now' = now + ClockStep
    /\ res' = NoResponse
    /\ UNCHANGED <<zipDir, zip, crashed>>
    /\ UnchangedOutsideZip

NextZip ==
    \/ \E r \in ZipSlots, f \in FileLists : createZip(r, f)
    \/ \E r \in ZipSlots : openStream(r)
    \/ \E r \in ZipSlots : finishStream(r)
    \/ \E r \in ZipSlots : streamError(r)
    \/ \E r \in ZipSlots : fireTimer(r)
    \/ tick

SpecZip == Init /\ [][NextZip]_vars

(***************************************************************************)
(* C1.  A successful getArticle of user U lists exactly the stored         *)
(* articles that U owns or that name U's email among their authors, each   *)
(* of them once, the owned ones first; the "did not submit any" answer is  *)
(* given only when no stored article is one of these.                      *)
(***************************************************************************)
VisibleTo(a, user) ==
    \/ a.userId = user.id
    \/ \E i \in DOMAIN a.authors : a.authors[i].email = user.email

Occurrences(list, id) == Cardinality({i \in DOMAIN list : list[i].id = id})

C1_ListForUser ==
    res.op = "getArticle" =>
        LET user == res.args[1]
        IN  /\ res.status = 200 =>
                /\ \A k \in DOMAIN articles :
                      Occurrences(res.data, articles[k].id)
                          = IF VisibleTo(articles[k], user) THEN 1 ELSE 0
                /\ \A i \in DOMAIN res.data : res.data[i] = articles[res.data[i].id]
                /\ \A i, j \in DOMAIN res.data :
                      (i < j /\ res.data[j].userId = user.id)
                          => res.data[i].userId = user.id
            /\ res.message = "You didn't submit any journal article" =>
                \A k \in DOMAIN articles : ~VisibleTo(articles[k], user)

\* An article matched by both conditions, one matched by its authors alone.
C1_Witness ==
    /\ res.op = "getArticle"
    /\ res.status = 200
    /\ Len(res.data) = 2
    /\ \E k \in DOMAIN articles :
          /\ articles[k].userId = res.args[1].id
          /\ \E i \in DOMAIN articles[k].authors :
                articles[k].authors[i].email = res.args[1].email
    /\ \E k \in DOMAIN articles : articles[k].userId # res.args[1].id

(***************************************************************************)
(* C2.  Every reviewer entry in a getReviewArticles answer carries the     *)
(* caller's email.                                                         *)
(***************************************************************************)
C2_OwnEntriesOnly ==
    (res.op = "getReviewArticles" /\ res.status = 200) =>
        /\ Len(res.data) > 0
        /\ \A i \in DOMAIN res.data :
              /\ Len(res.data[i].reviewers) > 0
              /\ \A j \in DOMAIN res.data[i].reviewers :
                    res.data[i].reviewers[j].email = res.args[1]

\* A returned article that another reviewer reviews too.
C2_Witness ==
    /\ res.op = "getReviewArticles"
    /\ res.status = 200
    /\ \E i \in DOMAIN res.data :
          \E j \in DOMAIN articles[res.data[i].id].reviewers :
              articles[res.data[i].id].reviewers[j].email # res.args[1]

(***************************************************************************)
(* C10.  A successful updateReview replaces the first reviewer entry with  *)
(* the caller's email by the entry sent and changes no other entry and no  *)
(* other article; with no entry of the caller the stored reviewers stay    *)
(* as they were.                                                           *)
(***************************************************************************)
C10_UpdateReview ==
    [][(res'.op = "updateReview" /\ res'.success) =>
          LET id == res'.args[1]
              email == res'.args[2]
              entry == res'.args[3]
              old == articles[id].reviewers
              new == articles'[id].reviewers
              matches == {i \in DOMAIN old : old[i].email = email}
          IN  /\ DOMAIN articles' = DOMAIN articles
              /\ \A k \in DOMAIN articles : k # id => articles'[k] = articles[k]
              /\ Len(new) = Len(old)
              /\ matches = {} => new = old
              /\ matches # {} =>
                    LET first == CHOOSE i \in matches : \A j \in matches : i <= j
                    IN  /\ new[first] = entry
                        /\ \A k \in DOMAIN old : k # first => new[k] = old[k]
      ]_vars

\* The call of a reviewer none of whose entries the article holds.
C10_Witness ==
    /\ res.op = "updateReview"
    /\ res.success
    /\ Len(articles[res.args[1]].reviewers) = 2
    /\ \A i \in DOMAIN articles[res.args[1]].reviewers :
          /\ articles[res.args[1]].reviewers[i].email # res.args[2]
          /\ articles[res.args[1]].reviewers[i] # res.args[3]

(***************************************************************************)
(* C3.  An addEditor call stores no Auth record whose email or phone       *)
(* number a stored Auth record holds: the save step of such a call fails   *)
(* (success=false), stores nothing and links no journal, whatever other    *)
(* addEditor calls are in flight.                                          *)
(***************************************************************************)
StoreUntouched == auths' = auths /\ journals' = journals

HeldByAnother(r) ==
    \E a \in auths : a.email = req[r].email \/ a.phoneNumber = req[r].phoneNumber

C3_ConflictCreatesNothing ==
    [][\A r \in Slots :
          (/\ req[r].op = "addEditor"
           /\ req[r].pc = "save"
           /\ req'[r] # req[r]
           /\ HeldByAnother(r))
              => /\ StoreUntouched
                 /\ req'[r] = IdleReq
                 /\ res'.op = "addEditor"
                 /\ ~res'.success
      ]_vars

(***************************************************************************)
(* C3, for the calls made when the record is stored already: a call made   *)
(* with an email or a phone number that an Auth record holds at the call   *)
(* creates no Auth record and links no journal in any of its steps, and    *)
(* ends with success=false (status 400, or 404 when a store call rejects). *)
(***************************************************************************)
C3_HeldAtTheCall ==
    [][/\ \A r \in Slots :
            (req[r] = IdleReq /\ req'[r].op = "addEditor" /\ req'[r].conflict)
                => (StoreUntouched /\ req'[r].pc = "findPhone")
       /\ (req' = req /\ res'.op = "addEditor" /\ res'.args.conflict)
                => (StoreUntouched /\ ~res'.success /\ res'.status \in {400, 404})
       /\ \A r \in Slots :
            (req[r].op = "addEditor" /\ req[r].conflict /\ req'[r] # req[r])
                => /\ StoreUntouched
                   /\ req'[r] = IdleReq
                   /\ res'.op = "addEditor"
                   /\ ~res'.success
                   /\ res'.status \in {400, 404}
      ]_vars

\* The number belongs to the Auth record of a call that has yet to link its journal.
C3_HeldAtTheCall_Witness ==
    /\ res.op = "addEditor"
    /\ res.status = 400
    /\ res.message = "Phone number already exists"
    /\ res.args.conflict
    /\ \E r \in Slots :
          /\ req[r].op = "addEditor"
          /\ req[r].pc = "link"
          /\ req[r].phoneNumber = res.args.phoneNumber
          /\ req[r].email # res.args.email

(***************************************************************************)
(* C4.  deleteJournal of a journal with an editor removes the journal and, *)
(* when it answers success, the Auth record of that editor, and no other   *)
(* record; of a journal without editor it removes the journal and leaves   *)
(* the Auth records as they are; of an unknown journalId it answers 404    *)
(* and changes nothing.                                                    *)
(***************************************************************************)
C4_DeleteJournal ==
    [][/\ \A r \in Slots :
            (req[r] = IdleReq /\ req'[r].op = "deleteJournal")
                => \E j \in journals :
                      /\ j.id = req'[r].journalId
                      /\ j.editorId # 0
                      /\ req'[r].editorId = j.editorId
                      /\ journals' = journals \ {j}
                      /\ auths' = auths
       /\ (req' = req /\ res'.op = "deleteJournal")
                => /\ res'.success =>
                        \E j \in journals :
                            /\ j.id = res'.args.journalId
                            /\ j.editorId = 0
                            /\ journals' = journals \ {j}
                            /\ auths' = auths
                   /\ (\A j \in journals : j.id # res'.args.journalId) =>
                        /\ res'.status = 404
                        /\ ~res'.success
                        /\ StoreUntouched
                   /\ res'.message = "Journal not found" =>
                        \A j \in journals : j.id # res'.args.journalId
       /\ \A r \in Slots :
            (req[r].op = "deleteJournal" /\ req'[r] # req[r])
                => /\ journals' = journals
                   /\ req'[r] = IdleReq
                   /\ res'.op = "deleteJournal"
                   /\ res'.success =>
                        /\ auths' = {a \in auths : a.id # req[r].editorId}
                        /\ \A j \in journals' : j.id # req[r].journalId
                   /\ ~res'.success => auths' = auths
      ]_vars

\* A journal deleted together with the Auth record of its editor.
C4_Witness ==
    /\ res.op = "deleteJournal"
    /\ res.success
    /\ res.args.editorId # 0
    /\ <<res.args.editorId, res.args.journalId>> \notin provisionedFor
    /\ \A a \in auths : a.id # res.args.editorId
    /\ \A j \in journals : j.id # res.args.journalId

(***************************************************************************)
(* C9.  With no request in flight, each journal has at most one stored     *)
(* editor Auth record that addEditor made for it, and that record is the   *)
(* one the journal's editorId names.                                       *)
(***************************************************************************)
Quiescent == \A r \in Slots : req[r] = IdleReq

EditorsMadeFor(j) ==
    {a \in auths : a.isEditor /\ <<a.id, j.id>> \in provisionedFor}

C9_AtMostOneEditor ==
    Quiescent =>
        \A j \in journals :
            /\ Cardinality(EditorsMadeFor(j)) <= 1
            /\ \A a \in EditorsMadeFor(j) : j.editorId = a.id

(***************************************************************************)
(* C5.  Every stored Reviewer has an Auth record of its email whose        *)
(* isReviewer flag is set.                                                 *)
(***************************************************************************)
C5_ReviewerHasFlaggedAuth ==
    \A v \in reviewers : \E a \in auths : a.email = v.email /\ a.isReviewer

(***************************************************************************)
(* C7.  Every handler run sends exactly one response and lets no failure   *)
(* out as an unhandled rejection.                                          *)
(***************************************************************************)
C7_FailuresAnswered ==
    res.op # "none" => (res.responses = 1 /\ ~res.escaped)

(***************************************************************************)
(* C8.  addReviewer with the email of a stored Reviewer does not succeed   *)
(* (its answer is 400 "Reviewer already exists"), stores no Reviewer and   *)
(* changes no Reviewer and no Auth record.                                 *)
(***************************************************************************)
C8_DuplicateReviewer ==
    [][(res'.op = "addReviewer" /\ \E v \in reviewers : v.email = res'.args[1])
          => /\ reviewers' = reviewers
             /\ auths' = auths
             /\ ~res'.success
             /\ res'.responses = 1 =>
                   (res'.status = 400 /\ res'.message = "Reviewer already exists")
      ]_vars

\* The refused call, of a reviewer whose Auth record is flagged.
C8_Witness ==
    /\ res.op = "addReviewer"
    /\ res.status = 400
    /\ \E v \in reviewers : v.email = res.args[1]
    /\ \E a \in auths : a.email = res.args[1] /\ a.isReviewer
    /\ Cardinality(reviewers) = 1

(***************************************************************************)
(* C6.  The archive a success response of createZip names is in the        *)
(* staging directory as the response is sent, and is not there once the    *)
(* delay of the request has passed.                                        *)
(***************************************************************************)
C6_ArchiveWindow ==
    /\ (res.op = "createZip" /\ res.success) => res.args[1] \in zipDir
    /\ \A r \in ZipSlots :
          (zip[r].stream = "finished" /\ now > zip[r].deadline)
              => zip[r].filename \notin zipDir

====
